---- MODULE Spec2Model ----
(***************************************************************************)
(* Model of the tubely upload handlers: handlerUploadVideo,                *)
(* handlerUploadThumbnail and the asset helpers they call                  *)
(* (processVideoForFastStart, getVideoAspectRatio, calculateAspectRatio,   *)
(* getObjectURL, dbVideoToSignedVideo).                                    *)
(*                                                                         *)
(* Go strings that the code formats or splits are modelled as sequences of *)
(* tokens, so that fmt.Sprintf is concatenation and strings.Split is a     *)
(* real split on the separator token.                                      *)
(***************************************************************************)
EXTENDS Integers, Sequences, FiniteSets, TLC

\* ------------------------------------------------------------------ bounds
\* dimensions handed to calculateAspectRatio range over -MaxDim..MaxDim
MaxDim == 40
\* number of concurrent handlerUploadThumbnail requests on the one video ID
NumThumbReqs == 2

\* ------------------------------------------------------ fixed configuration
Users == {"alice", "bob"}
\* the owner of the one video record of the model
Owner == "alice"
\* what the Authorization header can carry: nothing, a bad JWT, a user's JWT
Tokens == {"none", "bad"} \cup Users
s3Bucket == <<"tubely-bucket">>
s3Region == <<"us-east-1">>
port == <<"8091">>
videoID == <<"vid-1">>
\* os.CreateTemp("", "tubely-upload_*.mp4")
StagedPath == <<"/tmp/tubely-upload_", "123", ".mp4">>
\* the 32 random bytes, base64url-encoded (the alphabet has no "," and no "/")
RandomIDs == {"Zm9vYmFy"}
Reqs == 1 .. NumThumbReqs

\* a *string field of database.Video: nil or a pointer to a string
NilStr == [set |-> FALSE, val |-> <<>>]
Ptr(s) == [set |-> TRUE, val |-> s]

\* ------------------------------------------------------------ pure helpers
RECURSIVE Split(_, _)
\* strings.Split(s, sep) for a one-token separator
Split(s, sep) ==
    IF \A i \in 1 .. Len(s) : s[i] # sep
    THEN <<s>>
    ELSE LET i == CHOOSE k \in 1 .. Len(s) :
                      s[k] = sep /\ \A j \in 1 .. k - 1 : s[j] # sep
         IN  <<SubSeq(s, 1, i - 1)>> \o Split(SubSeq(s, i + 1, Len(s)), sep)

\* Go's int division truncates toward zero
GoDiv(a, b) == IF a >= 0 THEN a \div b ELSE -((-a) \div b)

calculateAspectRatio_PortraitFirst(width, height) ==
    IF height = GoDiv(16 * width, 9) THEN "portrait"
    ELSE IF width = GoDiv(16 * height, 9) THEN "landscape"
    ELSE "other"

calculateAspectRatio(width, height) ==
    IF width = GoDiv(16 * height, 9) THEN "landscape"
    ELSE IF height = GoDiv(16 * width, 9) THEN "portrait"
    ELSE "other"

mediaTypeToExtension(mediaType) ==
    LET parts == Split(mediaType, "/")
    IN  IF Len(parts) # 2 THEN <<".bin">> ELSE <<".">> \o parts[2]

generateRandomNameWithExtensionType(mediaType, id) ==
    <<id>> \o mediaTypeToExtension(mediaType)

getObjectURL(key) ==
    <<"https://">> \o s3Bucket \o <<".s3.">> \o s3Region
        \o <<".amazonaws.com/">> \o key

\* Content-Type values a client may declare for the file part
Headers == {"video/mp4", "VIDEO/MP4", "video/mp4; codecs=avc1",
            "video/webm", "image/png", ""}

\* mime.ParseMediaType: lower-cases the type, drops the parameters, and
\* fails on an empty value
ParseMediaType(h) ==
    CASE h = "video/mp4" -> [mediaType |-> <<"video", "/", "mp4">>, err |-> FALSE]
      [] h = "VIDEO/MP4" -> [mediaType |-> <<"video", "/", "mp4">>, err |-> FALSE]
      [] h = "video/mp4; codecs=avc1" ->
                            [mediaType |-> <<"video", "/", "mp4">>, err |-> FALSE]
      [] h = "video/webm" -> [mediaType |-> <<"video", "/", "webm">>, err |-> FALSE]
      [] h = "image/png" -> [mediaType |-> <<"image", "/", "png">>, err |-> FALSE]
      [] OTHER -> [mediaType |-> <<>>, err |-> TRUE]

VideoMp4 == <<"video", "/", "mp4">>

\* what running ffmpeg can leave behind
FfmpegOutcomes == {"exit1", "exit1_partial", "exit0_missing", "exit0_empty", "exit0_data"}

processVideoForFastStart_NoSizeCheck(inputFilePath, outcome, d) ==
    LET faststartPath == inputFilePath \o <<".processing">>
        written == CASE outcome = "exit1_partial" -> [d EXCEPT ![faststartPath] = "data"]
                     [] outcome = "exit0_empty" -> [d EXCEPT ![faststartPath] = "empty"]
                     [] outcome = "exit0_data" -> [d EXCEPT ![faststartPath] = "data"]
                     [] OTHER -> d
    IN  IF outcome \in {"exit1", "exit1_partial"}
        THEN [path |-> <<>>, err |-> TRUE, disk |-> written]
        ELSE IF written[faststartPath] = "absent"
        THEN [path |-> <<>>, err |-> TRUE, disk |-> written]
        ELSE [path |-> faststartPath, err |-> FALSE, disk |-> written]

\* runs ffmpeg (its effect on the disk is `outcome`), then stats the output
processVideoForFastStart(inputFilePath, outcome, d) ==
    LET faststartPath == inputFilePath \o <<".processing">>
        written == CASE outcome = "exit1_partial" -> [d EXCEPT ![faststartPath] = "data"]
                     [] outcome = "exit0_empty" -> [d EXCEPT ![faststartPath] = "empty"]
                     [] outcome = "exit0_data" -> [d EXCEPT ![faststartPath] = "data"]
                     [] OTHER -> d
    IN  IF outcome \in {"exit1", "exit1_partial"}
        THEN [path |-> <<>>, err |-> TRUE, disk |-> written]
        ELSE IF written[faststartPath] = "absent"
        THEN [path |-> <<>>, err |-> TRUE, disk |-> written]
        ELSE IF written[faststartPath] = "empty"
        THEN [path |-> <<>>, err |-> TRUE, disk |-> written]
        ELSE [path |-> faststartPath, err |-> FALSE, disk |-> written]

\* what ffprobe can print: a failure, unparsable output, no streams, or the
\* first stream's width and height
ProbeOutcomes ==
    {[kind |-> k, width |-> 0, height |-> 0] : k \in {"exit1", "badjson", "nostreams"}}
    \cup {[kind |-> "streams", width |-> wh[1], height |-> wh[2]] :
             wh \in {<<1920, 1080>>, <<1080, 1920>>, <<1920, 1081>>, <<640, 480>>}}

getVideoAspectRatio(outcome) ==
    IF outcome.kind # "streams"
    THEN [ratio |-> "", err |-> TRUE]
    ELSE [ratio |-> calculateAspectRatio(outcome.width, outcome.height), err |-> FALSE]

generatePresignedURL(bucket, key, ok) ==
    IF ok
    THEN [url |-> <<"https://">> \o bucket \o <<".s3.amazonaws.com/">> \o key
                      \o <<"?X-Amz-Signature=">>,
          err |-> FALSE]
    ELSE [url |-> <<>>, err |-> TRUE]

\* `ok` is whether the presign call succeeds
dbVideoToSignedVideo(video, ok) ==
    IF ~video.VideoURL.set THEN [video |-> video, err |-> FALSE]
    ELSE LET urlParts == Split(video.VideoURL.val, ",")
         IN  IF Len(urlParts) < 2 THEN [video |-> video, err |-> FALSE]
             ELSE LET p == generatePresignedURL(urlParts[1], urlParts[2], ok)
                  IN  IF p.err THEN [video |-> video, err |-> TRUE]
                      ELSE [video |-> [video EXCEPT !.VideoURL = Ptr(p.url)],
                            err |-> FALSE]


\* ------------------------------------------------------------------- state
VARIABLES
    crashed,          \* the server process died (fatal error: concurrent map writes)
    db,               \* the video record held by cfg.db
    s3Objects,        \* the PutObject inputs the bucket accepted, in order
    disk,             \* path -> "absent" | "empty" | "data"
    videoThumbnails,  \* the package-level map videoID -> thumbnail
    v,                \* the locals of the one handlerUploadVideo run
    t,                \* the locals of each handlerUploadThumbnail run
    aspect            \* input and result of a calculateAspectRatio call

vars == <<crashed, db, s3Objects, disk, videoThumbnails, v, t, aspect>>

Paths == {StagedPath, StagedPath \o <<".processing">>}
EmptyMap == [x \in {} |-> x]
NoVideo == [UserID |-> "", VideoURL |-> NilStr, ThumbnailURL |-> NilStr]

VInit ==
    [pc |-> "parseID", token |-> "", userID |-> "", video |-> NoVideo,
     header |-> "unset", mediaType |-> <<>>, deferred |-> <<>>,
     processedFilePath |-> <<>>, fastEncodedVid |-> "unset", aspectRatio |-> "",
     key |-> <<>>, responses |-> <<>>, staged |-> FALSE, ffmpeg |-> "unset",
     putCalls |-> 0, updateCalls |-> 0, updated |-> FALSE]

TInit ==
    [pc |-> "parseID", token |-> "", userID |-> "", mediaType |-> "",
     data |-> "unset", video |-> NoVideo, responses |-> <<>>, updated |-> FALSE]

Init ==
    /\ crashed = FALSE
    /\ db = [UserID |-> Owner, VideoURL |-> NilStr, ThumbnailURL |-> NilStr]
    /\ s3Objects = <<>>
    /\ disk = [p \in Paths |-> "absent"]
    /\ videoThumbnails = EmptyMap
    /\ v = VInit
    /\ t = [r \in Reqs |-> TInit]
    /\ aspect = [width |-> 0, height |-> 0, ratio |-> ""]

\* ------------------------------------------------------ handlerUploadVideo
RECURSIVE RunDeferred(_, _)
\* the deferred calls run last-in first-out when the handler returns
RunDeferred(deferred, d) ==
    IF deferred = <<>> THEN d
    ELSE LET top == deferred[Len(deferred)]
             rest == SubSeq(deferred, 1, Len(deferred) - 1)
         IN  RunDeferred(rest,
                 IF top.op = "os.Remove" /\ top.path \in DOMAIN d
                 THEN [d EXCEPT ![top.path] = "absent"]
                 ELSE d)

Defer(op, path) == [op |-> op, path |-> path]

\* respondWithError(w, code, ...) followed by return
VFail(vv, code, d) ==
    /\ v' = [vv EXCEPT !.responses = Append(@, code), !.pc = "done"]
    /\ disk' = RunDeferred(vv.deferred, d)

VParseID ==
    /\ ~crashed /\ v.pc = "parseID"
    /\ \E valid \in BOOLEAN :
          IF ~valid THEN VFail(v, 400, disk)
          ELSE v' = [v EXCEPT !.pc = "getBearerToken"] /\ UNCHANGED disk
    /\ UNCHANGED <<crashed, db, s3Objects, videoThumbnails, t, aspect>>

VGetBearerToken ==
    /\ ~crashed /\ v.pc = "getBearerToken"
    /\ \E tok \in Tokens :
          IF tok = "none"
          THEN v' = [v EXCEPT !.responses = Append(@, 401), !.token = "",
                              !.pc = "validateJWT"]
          ELSE v' = [v EXCEPT !.token = tok, !.pc = "validateJWT"]
    /\ UNCHANGED <<crashed, db, s3Objects, disk, videoThumbnails, t, aspect>>

VValidateJWT ==
    /\ ~crashed /\ v.pc = "validateJWT"
    /\ IF v.token \notin Users THEN VFail(v, 401, disk)
       ELSE v' = [v EXCEPT !.userID = v.token, !.pc = "getVideo"] /\ UNCHANGED disk
    /\ UNCHANGED <<crashed, db, s3Objects, videoThumbnails, t, aspect>>

VGetVideo ==
    /\ ~crashed /\ v.pc = "getVideo"
    /\ \E found \in BOOLEAN :
          IF ~found THEN VFail(v, 500, disk)
          ELSE v' = [v EXCEPT !.video = db, !.pc = "checkOwner"] /\ UNCHANGED disk
    /\ UNCHANGED <<crashed, db, s3Objects, videoThumbnails, t, aspect>>

VCheckOwner ==
    /\ ~crashed /\ v.pc = "checkOwner"
    /\ IF v.video.UserID # v.userID
       THEN v' = [v EXCEPT !.responses = Append(@, 401), !.pc = "formFile"]
       ELSE v' = [v EXCEPT !.pc = "formFile"]
    /\ UNCHANGED <<crashed, db, s3Objects, disk, videoThumbnails, t, aspect>>

VFormFile ==
    /\ ~crashed /\ v.pc = "formFile"
    /\ \/ VFail(v, 400, disk)
       \/ \E h \in Headers :
             /\ v' = [v EXCEPT !.header = h,
                               !.deferred = Append(@, Defer("file.Close", <<>>)),
                               !.pc = "checkMediaType"]
             /\ UNCHANGED disk
    /\ UNCHANGED <<crashed, db, s3Objects, videoThumbnails, t, aspect>>

VCheckMediaType_AnyVideo ==
    /\ ~crashed /\ v.pc = "checkMediaType"
    /\ LET parsed == ParseMediaType(v.header)
       IN  IF parsed.err THEN VFail(v, 400, disk)
           ELSE IF parsed.mediaType[1] # "video" THEN VFail(v, 400, disk)
           ELSE v' = [v EXCEPT !.mediaType = parsed.mediaType, !.pc = "createTemp"]
                /\ UNCHANGED disk
    /\ UNCHANGED <<crashed, db, s3Objects, videoThumbnails, t, aspect>>

VCheckMediaType ==
    /\ ~crashed /\ v.pc = "checkMediaType"
    /\ LET parsed == ParseMediaType(v.header)
       IN  IF parsed.err THEN VFail(v, 400, disk)
           ELSE IF parsed.mediaType # VideoMp4 THEN VFail(v, 400, disk)
           ELSE v' = [v EXCEPT !.mediaType = parsed.mediaType, !.pc = "createTemp"]
                /\ UNCHANGED disk
    /\ UNCHANGED <<crashed, db, s3Objects, videoThumbnails, t, aspect>>

VCreateTemp ==
    /\ ~crashed /\ v.pc = "createTemp"
    /\ \/ VFail(v, 500, disk)
       \/ /\ disk' = [disk EXCEPT ![StagedPath] = "empty"]
          /\ v' = [v EXCEPT !.staged = TRUE,
                            !.deferred = @ \o <<Defer("os.Remove", StagedPath),
                                                Defer("tempVidFile.Close", <<>>)>>,
                            !.pc = "copy"]
    /\ UNCHANGED <<crashed, db, s3Objects, videoThumbnails, t, aspect>>

\* io.Copy: a failed copy (e.g. the body exceeds maxUploadLimit) may have
\* written part of the upload
VCopy ==
    /\ ~crashed /\ v.pc = "copy"
    /\ \/ \E partial \in {"empty", "data"} :
             VFail(v, 500, [disk EXCEPT ![StagedPath] = partial])
       \/ /\ disk' = [disk EXCEPT ![StagedPath] = "data"]
          /\ v' = [v EXCEPT !.pc = "seek"]
    /\ UNCHANGED <<crashed, db, s3Objects, videoThumbnails, t, aspect>>

VSeek ==
    /\ ~crashed /\ v.pc = "seek"
    /\ \/ VFail(v, 500, disk)
       \/ v' = [v EXCEPT !.pc = "process"] /\ UNCHANGED disk
    /\ UNCHANGED <<crashed, db, s3Objects, videoThumbnails, t, aspect>>

VProcess ==
    /\ ~crashed /\ v.pc = "process"
    /\ \E outcome \in FfmpegOutcomes :
          LET res == processVideoForFastStart(StagedPath, outcome, disk)
              ran == [v EXCEPT !.ffmpeg = outcome]
          IN  IF res.err THEN VFail(ran, 500, res.disk)
              ELSE /\ disk' = res.disk
                   /\ v' = [ran EXCEPT !.processedFilePath = res.path,
                                     !.deferred = Append(@, Defer("os.Remove", res.path)),
                                     !.pc = "open"]
    /\ UNCHANGED <<crashed, db, s3Objects, videoThumbnails, t, aspect>>

VOpen ==
    /\ ~crashed /\ v.pc = "open"
    /\ \E ok \in BOOLEAN :
          v' = [v EXCEPT !.fastEncodedVid = IF ok THEN "open" ELSE "nil",
                         !.responses = IF ok THEN @ ELSE Append(@, 500),
                         !.deferred = Append(@, Defer("fastEncodedVid.Close", <<>>)),
                         !.pc = "aspect"]
    /\ UNCHANGED <<crashed, db, s3Objects, disk, videoThumbnails, t, aspect>>

VAspect ==
    /\ ~crashed /\ v.pc = "aspect"
    /\ \E outcome \in ProbeOutcomes :
          LET res == getVideoAspectRatio(outcome)
          IN  IF res.err THEN VFail(v, 500, disk)
              ELSE v' = [v EXCEPT !.aspectRatio = res.ratio, !.pc = "putObject"]
                   /\ UNCHANGED disk
    /\ UNCHANGED <<crashed, db, s3Objects, videoThumbnails, t, aspect>>

\* key generation and the PutObject call; a body that is a nil *os.File
\* makes the SDK's read fail, so the call can then only return an error
VPutObject ==
    /\ ~crashed /\ v.pc = "putObject"
    /\ \E id \in RandomIDs, ok \in BOOLEAN :
          LET key == <<v.aspectRatio, "/">>
                         \o generateRandomNameWithExtensionType(v.mediaType, id)
              called == [v EXCEPT !.key = key, !.putCalls = @ + 1]
          IN  IF ~ok \/ v.fastEncodedVid = "nil"
              THEN VFail(called, 500, disk) /\ UNCHANGED s3Objects
              ELSE /\ s3Objects' = Append(s3Objects,
                          [Bucket |-> s3Bucket, Key |-> key,
                           Body |-> v.processedFilePath, ContentType |-> v.mediaType])
                   /\ v' = [called EXCEPT !.pc = "updateVideo"]
                   /\ UNCHANGED disk
    /\ UNCHANGED <<crashed, db, videoThumbnails, t, aspect>>

VUpdateVideo ==
    /\ ~crashed /\ v.pc = "updateVideo"
    /\ \E ok \in BOOLEAN :
          LET video == [v.video EXCEPT !.VideoURL = Ptr(getObjectURL(v.key))]
              called == [v EXCEPT !.video = video, !.updateCalls = @ + 1]
          IN  IF ~ok THEN VFail(called, 500, disk) /\ UNCHANGED db
              ELSE /\ db' = video
                   /\ VFail([called EXCEPT !.updated = TRUE], 200, disk)
    /\ UNCHANGED <<crashed, s3Objects, videoThumbnails, t, aspect>>

VideoNext ==
    \/ VParseID \/ VGetBearerToken \/ VValidateJWT \/ VGetVideo \/ VCheckOwner
    \/ VFormFile \/ VCheckMediaType \/ VCreateTemp \/ VCopy \/ VSeek
    \/ VProcess \/ VOpen \/ VAspect \/ VPutObject \/ VUpdateVideo

SpecVideo == Init /\ [][VideoNext]_vars

\* -------------------------------------------------- handlerUploadThumbnail
\* respondWithError(w, code, ...) followed by return (nothing is deferred
\* that touches the modelled state)
TFail(r, code) ==
    t' = [t EXCEPT ![r].responses = Append(@, code), ![r].pc = "done"]

TGoto(r, pc) == t' = [t EXCEPT ![r].pc = pc]

TParseID(r) ==
    /\ ~crashed /\ t[r].pc = "parseID"
    /\ \/ TFail(r, 400)
       \/ TGoto(r, "getBearerToken")
    /\ UNCHANGED <<crashed, db, s3Objects, disk, videoThumbnails, v, aspect>>

TGetBearerToken(r) ==
    /\ ~crashed /\ t[r].pc = "getBearerToken"
    /\ \E tok \in Tokens :
          IF tok = "none" THEN TFail(r, 401)
          ELSE t' = [t EXCEPT ![r].token = tok, ![r].pc = "validateJWT"]
    /\ UNCHANGED <<crashed, db, s3Objects, disk, videoThumbnails, v, aspect>>

TValidateJWT(r) ==
    /\ ~crashed /\ t[r].pc = "validateJWT"
    /\ IF t[r].token \notin Users THEN TFail(r, 401)
       ELSE t' = [t EXCEPT ![r].userID = t[r].token, ![r].pc = "parseForm"]
    /\ UNCHANGED <<crashed, db, s3Objects, disk, videoThumbnails, v, aspect>>

\* r.ParseMultipartForm and r.FormFile("thumbnail")
TFormFile(r) ==
    /\ ~crashed /\ t[r].pc = "parseForm"
    /\ \/ TFail(r, 500)
       \/ TFail(r, 400)
       \/ TGoto(r, "mediaType")
    /\ UNCHANGED <<crashed, db, s3Objects, disk, videoThumbnails, v, aspect>>

TMediaType(r) ==
    /\ ~crashed /\ t[r].pc = "mediaType"
    /\ \E h \in {"image/png", ""} :
          IF h = "" THEN TFail(r, 400)
          ELSE t' = [t EXCEPT ![r].mediaType = h, ![r].pc = "readAll"]
    /\ UNCHANGED <<crashed, db, s3Objects, disk, videoThumbnails, v, aspect>>

TReadAll(r) ==
    /\ ~crashed /\ t[r].pc = "readAll"
    /\ \E ok \in BOOLEAN :
          t' = [t EXCEPT ![r].data = IF ok THEN "full" ELSE "partial",
                         ![r].responses = IF ok THEN @ ELSE Append(@, 500),
                         ![r].pc = "getVideo"]
    /\ UNCHANGED <<crashed, db, s3Objects, disk, videoThumbnails, v, aspect>>

TGetVideo(r) ==
    /\ ~crashed /\ t[r].pc = "getVideo"
    /\ \/ TFail(r, 500)
       \/ t' = [t EXCEPT ![r].video = db, ![r].pc = "store"]
    /\ UNCHANGED <<crashed, db, s3Objects, disk, videoThumbnails, v, aspect>>

\* videoThumbnails[videoID] = thumbnail{...}
TStore(r) ==
    /\ ~crashed /\ t[r].pc = "store"
    /\ videoThumbnails' =
           [id \in DOMAIN videoThumbnails \cup {videoID} |->
               IF id = videoID
               THEN [data |-> <<r, t[r].data>>, mediaType |-> t[r].mediaType]
               ELSE videoThumbnails[id]]
    /\ TGoto(r, "updateVideo")
    /\ UNCHANGED <<crashed, db, s3Objects, disk, v, aspect>>

TUpdateVideo(r) ==
    /\ ~crashed /\ t[r].pc = "updateVideo"
    /\ LET url == <<"http://localhost:">> \o port \o <<"/api/thumbnails/">> \o videoID
           video == [t[r].video EXCEPT !.ThumbnailURL = Ptr(url)]
       IN  \/ /\ db' = video
              /\ t' = [t EXCEPT ![r].video = video, ![r].updated = TRUE,
                                ![r].responses = Append(@, 200), ![r].pc = "done"]
           \/ /\ t' = [t EXCEPT ![r].video = video, ![r].pc = "delete"]
              /\ UNCHANGED db
    /\ UNCHANGED <<crashed, s3Objects, disk, videoThumbnails, v, aspect>>

\* the error branch of UpdateVideo: delete(videoThumbnails, videoID)
TDelete(r) ==
    /\ ~crashed /\ t[r].pc = "delete"
    /\ videoThumbnails' = [id \in DOMAIN videoThumbnails \ {videoID} |-> videoThumbnails[id]]
    /\ TFail(r, 500)
    /\ UNCHANGED <<crashed, db, s3Objects, disk, v, aspect>>

\* two goroutines about to write the unguarded map at once: the Go runtime
\* may abort the process with "fatal error: concurrent map writes"
TConcurrentMapWrites ==
    /\ ~crashed
    /\ \E r1, r2 \in Reqs :
          /\ r1 # r2
          /\ t[r1].pc \in {"store", "delete"}
          /\ t[r2].pc \in {"store", "delete"}
    /\ crashed' = TRUE
    /\ UNCHANGED <<db, s3Objects, disk, videoThumbnails, v, t, aspect>>

ThumbNext ==
    \/ \E r \in Reqs :
          \/ TParseID(r) \/ TGetBearerToken(r) \/ TValidateJWT(r) \/ TFormFile(r)
          \/ TMediaType(r) \/ TReadAll(r) \/ TGetVideo(r) \/ TStore(r)
          \/ TUpdateVideo(r) \/ TDelete(r)
    \/ TConcurrentMapWrites

SpecThumb == Init /\ [][ThumbNext]_vars

\* both handlers serving requests in the one server process
Next == VideoNext \/ ThumbNext

Spec == Init /\ [][Next]_vars

\* ---------------------------------------------------- calculateAspectRatio
Dims == (-MaxDim .. MaxDim) \cup {1080, 1081, 1920, 1921}

InitAspect ==
    /\ crashed = FALSE
    /\ db = [UserID |-> Owner, VideoURL |-> NilStr, ThumbnailURL |-> NilStr]
    /\ s3Objects = <<>>
    /\ disk = [p \in Paths |-> "absent"]
    /\ videoThumbnails = EmptyMap
    /\ v = VInit
    /\ t = [r \in Reqs |-> TInit]
    /\ \E width \in Dims, height \in Dims :
          aspect = [width |-> width, height |-> height, ratio |-> ""]

Classify ==
    /\ aspect.ratio = ""
    /\ aspect' = [aspect EXCEPT !.ratio = calculateAspectRatio(aspect.width, aspect.height)]
    /\ UNCHANGED <<crashed, db, s3Objects, disk, videoThumbnails, v, t>>

SpecAspect == InitAspect /\ [][Classify]_vars

\* ------------------------------------------------------------- properties
Last(s) == s[Len(s)]
HasError(responses) == \E i \in 1 .. Len(responses) : responses[i] # 200
ProcessingPath == StagedPath \o <<".processing">>

\* C1: once a handlerUploadVideo run that created the staged temp file has
\* returned, neither the staged file nor <staged>.processing is on disk.
C1_CleanupOnEveryExit ==
    (v.pc = "done" /\ v.staged) => \A p \in Paths : disk[p] = "absent"

\* C2: after a successful handlerUploadVideo run the persisted VideoURL is
\* "<bucket>,<key>", which dbVideoToSignedVideo splits and replaces by the
\* presigned URL of that bucket and key.
C2_PersistedBucketKey ==
    (v.pc = "done" /\ v.updated) =>
        /\ db.VideoURL = Ptr(s3Bucket \o <<",">> \o v.key)
        /\ dbVideoToSignedVideo(db, TRUE).video.VideoURL
               = Ptr(generatePresignedURL(s3Bucket, v.key, TRUE).url)

\* C3: a run whose authenticated user is not the video's owner is answered
\* 401 and aborted: it stages no temp file, calls neither PutObject nor
\* UpdateVideo, and leaves the record's VideoURL alone.
C3_MismatchAborts ==
    (v.userID # "" /\ v.video # NoVideo /\ v.video.UserID # v.userID) =>
        /\ ~v.staged
        /\ v.putCalls = 0
        /\ v.updateCalls = 0
        /\ db.VideoURL = NilStr
        /\ v.pc = "done" => v.responses = <<401>>

\* q is a / b as Go computes it for b > 0: the quotient truncated toward zero
IsGoQuotient(q, a, b) ==
    IF a >= 0 THEN b * q <= a /\ a < b * q + b
    ELSE b * q >= a /\ a > b * q - b

C5_ExactRatio ==
    (aspect.ratio # "" /\ aspect.width >= 0 /\ aspect.height >= 0) =>
        /\ aspect.ratio = "landscape" => 9 * aspect.width = 16 * aspect.height
        /\ aspect.ratio = "portrait" => 9 * aspect.height = 16 * aspect.width

\* Content-Type values whose media type is not video/mp4
NotMp4 == {h \in Headers : h \notin {"video/mp4", "VIDEO/MP4", "video/mp4; codecs=avc1"}}

\* C6: when the declared media type of the file part is not video/mp4, the
\* run calls neither PutObject nor UpdateVideo, answers with an error, and
\* leaves no staged or .processing file behind.
C6_WrongMediaTypeRejected ==
    v.header \in NotMp4 =>
        /\ v.putCalls = 0 /\ s3Objects = <<>>
        /\ v.updateCalls = 0 /\ db.VideoURL = NilStr
        /\ \A p \in Paths : disk[p] = "absent"
        /\ v.pc \in {"checkMediaType", "done"}
        /\ v.pc = "done" => (Last(v.responses) = 400 /\ 200 \notin {v.responses[i] : i \in 1 .. Len(v.responses)})

C6_Witness ==
    v.pc = "done" /\ v.header = "video/webm" /\ Last(v.responses) = 400

\* C7: when ffmpeg exits 0 but <input>.processing has size 0,
\* processVideoForFastStart returns an error and no path, and the handler
\* answers 500 and returns without PutObject or UpdateVideo.
C7_EmptyOutputFails ==
    v.ffmpeg = "exit0_empty" =>
        /\ v.processedFilePath = <<>>
        /\ v.pc = "done"
        /\ Last(v.responses) = 500
        /\ v.putCalls = 0 /\ s3Objects = <<>>
        /\ v.updateCalls = 0 /\ db.VideoURL = NilStr

C7_Witness ==
    /\ v.ffmpeg = "exit0_empty" /\ disk[ProcessingPath] = "empty"
    /\ v.pc = "done" /\ Last(v.responses) = 500

\* C8: in one handlerUploadVideo run the record is mutated exactly once if
\* the upload succeeds and not at all if any step fails; UpdateVideo is
\* called only after PutObject succeeded; PutObject is called at most once
\* and only after processVideoForFastStart and getVideoAspectRatio succeeded.
C8_MutatedOnceOnSuccessOnly ==
    /\ v.putCalls <= 1
    /\ v.putCalls > 0 => (v.processedFilePath # <<>> /\ v.aspectRatio # "")
    /\ v.updateCalls > 0 => Len(s3Objects) = 1
    /\ v.updateCalls <= 1
    /\ HasError(v.responses) => (~v.updated /\ db.VideoURL = NilStr)
    /\ (v.pc = "done" /\ ~HasError(v.responses)) => (v.updated /\ v.updateCalls = 1)

\* C9: in every run of either upload handler exactly one response is
\* written, and once an error response is written the run is over.
C9_FailedIsTerminal ==
    /\ Len(v.responses) <= 1
    /\ HasError(v.responses) => v.pc = "done"
    /\ v.pc = "done" => Len(v.responses) = 1
    /\ \A r \in Reqs :
          /\ Len(t[r].responses) <= 1
          /\ HasError(t[r].responses) => t[r].pc = "done"
          /\ t[r].pc = "done" => Len(t[r].responses) = 1

\* C10: once all thumbnail requests on the video ID have finished, a
\* persisted ThumbnailURL (set by a request whose UpdateVideo succeeded)
\* implies that videoThumbnails still holds an entry for the video ID.
C10_ThumbnailStillHeld ==
    ((\A r \in Reqs : t[r].pc = "done") /\ db.ThumbnailURL.set) =>
        videoID \in DOMAIN videoThumbnails

====
